---- MODULE Spec2Model ----
(***************************************************************************)
(* The event-discovery pipeline of TN-by-Night: the crawler of             *)
(* scraping/scraper.py (listing, URL deduplication, tiered city resolver,  *)
(* CSV export), the CSV import and event routes of routes/events.py over   *)
(* the Event table of models.py, and the heatmap aggregator of             *)
(* utils/heatmap.py behind routes/heatmap.py.                              *)
(*                                                                         *)
(* A text is a sequence of words (the maximal runs of word characters of   *)
(* the string); a URL is a sequence of parts, so that string concatenation *)
(* and a prefix test are sequence operations.                              *)
(***************************************************************************)
EXTENDS Integers, Sequences, FiniteSets, TLC

\* ------------------------------------------------------------------ bounds
MaxContainers == 2
MaxClock == 1

\* ------------------------------------------------- scraper.py: the tables
TUNISIAN_CITIES ==
    << "Tunis", "Ariana", "Ben Arous", "Manouba", "Nabeul", "Zaghouan",
       "Bizerte", "Béja", "Jendouba", "Kef", "Siliana", "Sousse",
       "Monastir", "Mahdia", "Sfax", "Kairouan", "Kasserine", "Sidi Bouzid",
       "Gabès", "Medenine", "Tataouine", "Gafsa", "Tozeur", "Kebili" >>

CITY_ALIASES ==
    << << <<"monastir">>, "Monastir" >>,
       << <<"mehdia">>,   "Mahdia" >>,
       << <<"mahdia">>,   "Mahdia" >>,
       << <<"sfax">>,     "Sfax" >>,
       << <<"sousse">>,   "Sousse" >>,
       << <<"kairouan">>, "Kairouan" >> >>

VENUE_CITY_MAP ==
    << << <<"théâtre", "municipal">>, "Tunis" >>,
       << <<"theatre", "municipal">>, "Tunis" >>,
       << <<"colisée">>, "Tunis" >>,
       << <<"4ème", "art">>, "Tunis" >>,
       << <<"africa", "art", "center">>, "Tunis" >>,
       << <<"complexe", "culturel", "sfax">>, "Sfax" >>,
       << <<"maison", "de", "la", "culture", "mahdia">>, "Mahdia" >>,
       << <<"maison", "de", "la", "culture", "monastir">>, "Monastir" >> >>

\* ------------------------------------------------ str.lower and matching
\* The words of the model's vocabulary that str.lower() changes.
CaseTable ==
    { <<"Tunis", "tunis">>, <<"Ariana", "ariana">>, <<"Ben", "ben">>,
      <<"Arous", "arous">>, <<"Manouba", "manouba">>, <<"Nabeul", "nabeul">>,
      <<"Zaghouan", "zaghouan">>, <<"Bizerte", "bizerte">>, <<"Béja", "béja">>,
      <<"Jendouba", "jendouba">>, <<"Kef", "kef">>, <<"Siliana", "siliana">>,
      <<"Sousse", "sousse">>, <<"Monastir", "monastir">>,
      <<"MONASTIR", "monastir">>, <<"Mahdia", "mahdia">>, <<"Sfax", "sfax">>,
      <<"Kairouan", "kairouan">>, <<"Kasserine", "kasserine">>,
      <<"Sidi", "sidi">>, <<"Bouzid", "bouzid">>, <<"Gabès", "gabès">>,
      <<"Medenine", "medenine">>, <<"Tataouine", "tataouine">>,
      <<"Gafsa", "gafsa">>, <<"Tozeur", "tozeur">>, <<"Kebili", "kebili">>,
      <<"Soirée", "soirée">>, <<"Concert", "concert">>, <<"Jazz", "jazz">>,
      <<"Unknown", "unknown">>, <<"Avenue", "avenue">>,
      <<"Théâtre", "théâtre">>, <<"Municipal", "municipal">>,
      <<"Colisées", "colisées">>, <<"Sfaxien", "sfaxien">>,
      <<"Salle", "salle">>, <<"Festival", "festival">>, <<"Le", "le">> }

lower_word(w) ==
    IF \E p \in CaseTable : p[1] = w
    THEN (CHOOSE p \in CaseTable : p[1] = w)[2]
    ELSE w

lower(text) == [k \in 1..Len(text) |-> lower_word(text[k])]

\* The words of a city name, as city.lower() leaves them.
city_words(city) ==
    CASE city = "Ben Arous"   -> lower(<<"Ben", "Arous">>)
      [] city = "Sidi Bouzid" -> lower(<<"Sidi", "Bouzid">>)
      [] OTHER                -> lower(<<city>>)

\* re.search(rf'\b{key}\b', text): the key's words occur as whole words.
re_search_word(key, text) ==
    \E j \in 1..(Len(text) - Len(key) + 1) :
        SubSeq(text, j, j + Len(key) - 1) = key

\* Pairs <<a, b>> of vocabulary words with a a proper substring of b.
WordInfix == { <<"colisée", "colisées">>, <<"sfax", "sfaxien">> }

\* `venue in text`: plain substring containment, no word boundary.
str_contains(venue, text) ==
    \E j \in 1..(Len(text) - Len(venue) + 1) :
        \A m \in 1..Len(venue) :
            \/ text[j + m - 1] = venue[m]
            \/ /\ m = Len(venue)
               /\ <<venue[m], text[j + m - 1]>> \in WordInfix

NoMatch == "<no match>"

FirstIndex(S) == CHOOSE k \in S : \A m \in S : k <= m

\* scraper.py 50-54: the first alias, in table order, found in the title.
title_city(event_name) ==
    IF event_name = <<>>
    THEN NoMatch
    ELSE LET lowered == lower(event_name)
             hits == { k \in 1..Len(CITY_ALIASES) :
                         re_search_word(CITY_ALIASES[k][1], lowered) }
         IN IF hits = {} THEN NoMatch ELSE CITY_ALIASES[FirstIndex(hits)][2]

\* The first city of TUNISIAN_CITIES found in one block, or NoMatch.
block_city(text) ==
    LET hits == { k \in 1..Len(TUNISIAN_CITIES) :
                    re_search_word(city_words(TUNISIAN_CITIES[k]), text) }
    IN IF hits = {} THEN NoMatch ELSE TUNISIAN_CITIES[FirstIndex(hits)]

\* scraper.py 57-70: blocks in selector then document order.
address_city(blocks) ==
    LET hits == { b \in 1..Len(blocks) : block_city(lower(blocks[b])) # NoMatch }
    IN IF hits = {} THEN NoMatch ELSE block_city(lower(blocks[FirstIndex(hits)]))

block_venue(text) ==
    LET hits == { k \in 1..Len(VENUE_CITY_MAP) :
                    str_contains(VENUE_CITY_MAP[k][1], text) }
    IN IF hits = {} THEN NoMatch ELSE VENUE_CITY_MAP[FirstIndex(hits)][2]

\* scraper.py 73-81.
venue_city(blocks) ==
    LET hits == { b \in 1..Len(blocks) : block_venue(lower(blocks[b])) # NoMatch }
    IN IF hits = {} THEN NoMatch ELSE block_venue(lower(blocks[FirstIndex(hits)]))

\* ---------------------------------------------------- the pages of the site
\* What one event page holds when the resolver visits it.  fault names the
\* await that raises: "goto" (navigation fails or times out), "address" or
\* "venue" (a query or inner_text of that tier raises), "none".
Page(fault, address, venue) == [fault |-> fault, address |-> address, venue |-> venue]

Pages ==
    { Page("none", << <<"Avenue", "Sfax">> >>, << <<"Théâtre", "Municipal">> >>),
      Page("none", <<>>, << <<"Salle", "Sfaxien">>, <<"Le", "Colisées">> >>),
      Page("none", << <<"Avenue", "Sfaxien">> >>, << <<"Salle">> >>),
      Page("goto", <<>>, <<>>),
      Page("address", << <<"Avenue", "Sfax">> >>, << <<"Théâtre", "Municipal">> >>),
      Page("venue", <<>>, << <<"Théâtre", "Municipal">> >>) }

\* A variant with the venue tier tried before the address tier.
extract_city_venue_first(page, event_name) ==
    IF page.fault = "goto" THEN "Error"
    ELSE IF title_city(event_name) # NoMatch THEN title_city(event_name)
    ELSE IF page.fault = "venue" THEN "Error"
    ELSE IF venue_city(page.venue) # NoMatch THEN venue_city(page.venue)
    ELSE IF page.fault = "address" THEN "Error"
    ELSE IF address_city(page.address) # NoMatch THEN address_city(page.address)
    ELSE "Unknown"

\* scraper.py 37-87: the value extract_city_from_event_page returns.
extract_city_from_event_page(page, event_name) ==
    IF page.fault = "goto" THEN "Error"
    ELSE IF title_city(event_name) # NoMatch THEN title_city(event_name)
    ELSE IF page.fault = "address" THEN "Error"
    ELSE IF address_city(page.address) # NoMatch THEN address_city(page.address)
    ELSE IF page.fault = "venue" THEN "Error"
    ELSE IF venue_city(page.venue) # NoMatch THEN venue_city(page.venue)
    ELSE "Unknown"

\* --------------------------------------------------- the listing's items
NoElem == "<no element>"
Absent == <<>>
Some(x) == <<x>>

\* One div.tour_container: the href of its '.img_container a' (Absent when
\* the link or its href is missing), the text of its title element (Absent
\* when there is none) and the texts of its other field elements.
Container(href, title, place, date, price) ==
    [href |-> href, title |-> title, place |-> place, date |-> date, price |-> price]

Containers ==
    { Container(Some(<<"/e1">>), Some(<<"Soirée", "à", "MONASTIR">>),
                "Le Colisée", "12 Dec", "30 DT"),
      Container(Some(<<"https://teskerti.tn", "/e1">>), Some(<<"Concert", "Jazz">>),
                NoElem, NoElem, NoElem),
      Container(Some(<<"/e2">>), Absent, "Salle", NoElem, "20 DT"),
      Container(Absent, Some(<<"Concert", "Jazz">>), NoElem, NoElem, NoElem) }

RECURSIVE SeqsUpTo(_, _)
SeqsUpTo(S, n) ==
    IF n = 0 THEN { <<>> }
    ELSE LET shorter == SeqsUpTo(S, n - 1)
         IN shorter \cup { Append(q, x) : q \in shorter, x \in S }

Listings == SeqsUpTo(Containers, MaxContainers)

\* href.startswith('http')
startswith_http(href) == Head(href) \in { "https://teskerti.tn", "http://teskerti.tn" }

\* A variant that tests membership on the href as written.
resolve_href_raw(href) == href

\* scraper.py 127-128.
resolve_href(href) ==
    IF startswith_http(href) THEN href ELSE <<"https://teskerti.tn">> \o href

or_default(text, default) == IF text = NoElem THEN default ELSE text

\* scraper.py 144-152: the record appended for one container.
raw_event(c, url, t) ==
    [name |-> IF c.title = Absent THEN <<"Unknown">> ELSE c.title[1],
     place |-> or_default(c.place, "N/A"),
     date |-> or_default(c.date, "N/A"),
     price |-> or_default(c.price, "N/A"),
     url |-> url,
     city |-> "Pending",
     scraped_at |-> t]

\* scraper.py 115-152: the loop over the containers from index k on.
RECURSIVE build_events(_, _, _, _, _)
build_events(cs, k, events_, seen_urls, t) ==
    IF k > Len(cs) THEN events_
    ELSE IF cs[k].href = Absent THEN build_events(cs, k + 1, events_, seen_urls, t)
    ELSE LET href == resolve_href(cs[k].href[1])
         IN IF href \in seen_urls
            THEN build_events(cs, k + 1, events_, seen_urls, t)
            ELSE build_events(cs, k + 1, Append(events_, raw_event(cs[k], href, t)),
                              seen_urls \cup {href}, t)

\* ------------------------------------------------------------- the state
VARIABLES
    now,         \* the wall clock
    pc,          \* where main() of scraper.py stands
    containers,  \* the listing items the run saw
    events,      \* scrape_events' list
    i,           \* the resolution loop's index (1-based)
    inflight,    \* the events whose page navigation is in progress
    calls,       \* per event, the resolver's calls: page visited, value returned
    delays,      \* how many inter-request delays have elapsed
    sink,        \* the lists handed to save_to_csv, in call order
    files,       \* the export files on disk: name -> NoFile or File(rows)
    db,          \* the committed rows of the events table
    imp,         \* the CSV import request in progress and its session
    resp,        \* the answer to the last CSV import request
    handed,      \* the list a heatmap request gives the aggregator: <<list>>
    saved,       \* what save_to_csv met and what it returned
    agg          \* a call of the aggregator: function, arguments, result

crawl_vars == <<pc, containers, events, i, inflight, calls, delays, sink>>
api_vars == <<db, imp, resp, handed>>
vars == <<now, crawl_vars, files, api_vars, saved, agg>>

NoFile == [exists |-> FALSE, rows |-> <<>>]
File(rows) == [exists |-> TRUE, rows |-> rows]

Times == 0..MaxClock
alt_name(t) == "events_" \o ToString(t) \o ".csv"
FileNames == { "events.csv" } \cup { alt_name(t) : t \in Times }

\* An export left by an earlier run.
OldExport ==
    << [name |-> <<"Concert", "Jazz">>, place |-> "N/A", date |-> "N/A",
        price |-> "N/A", url |-> <<"https://teskerti.tn", "/e0">>,
        city |-> "Tunis", scraped_at |-> 0] >>

\* ------------------------------------------------ models.py: the Event rows
\* A row of the events table (created_at, never read or written by the
\* routes after the insert, is left out).  suggested_by_id 0 stands for NULL.
Row(id, name, place, date, price, url, city, status, by, scraped_at, updated_at) ==
    [id |-> id, name |-> name, place |-> place, date |-> date, price |-> price,
     url |-> url, city |-> city, status |-> status, suggested_by_id |-> by,
     scraped_at |-> scraped_at, updated_at |-> updated_at]

\* models.py 41-55.
to_dict(r) ==
    [id |-> r.id, name |-> r.name, place |-> r.place, date |-> r.date,
     price |-> r.price, url |-> r.url, city |-> r.city, status |-> r.status,
     scraped_at |-> r.scraped_at, updated_at |-> r.updated_at]

\* The session of one import request: the operations not yet flushed, the
\* open transaction (its uncommitted view of the table, held under the
\* database's write lock), and whether a failed flush awaits a rollback.
NoTx == [open |-> FALSE, view |-> {}]
IdleImport ==
    [pc |-> "idle", rows |-> <<>>, k |-> 1, imported |-> 0, skipped |-> 0,
     errors |-> 0, pending |-> <<>>, tx |-> NoTx, failed |-> FALSE,
     conflicts |-> 0, updates |-> <<>>]

\* The JSON answer (code 0: none), and beside it what the request met:
\* conflicts, the uniqueness violations raised, and inserted, the rows its
\* commit added to the table.
NoResp == [code |-> 0, imported |-> 0, updated |-> 0, errors |-> 0,
           conflicts |-> 0, inserted |-> 0]

\* save_to_csv not called yet.  Of a call: whether events.csv existed,
\* whether os.remove and open raised PermissionError, the clock, and the
\* value returned (Absent for None).
NotSaved ==
    [called |-> FALSE, existed |-> FALSE, locked |-> FALSE,
     unwritable |-> FALSE, at |-> 0, result |-> Absent]

\* No call of the aggregator yet.
NoCall == [fn |-> "", events |-> <<>>, score |-> 0, result |-> <<>>]

InitApi ==
    /\ db = {}
    /\ imp = IdleImport
    /\ resp = NoResp
    /\ handed = <<>>

InitCrawl ==
    /\ pc = "start"
    /\ containers = <<>>
    /\ events = <<>>
    /\ i = 1
    /\ inflight = {}
    /\ calls = <<>>
    /\ delays = 0
    /\ sink = <<>>
    /\ saved = NotSaved

Init ==
    /\ now = 0
    /\ InitCrawl
    /\ InitApi
    /\ agg = NoCall
    /\ \E old \in { NoFile, File(OldExport) } :
          files = [f \in FileNames |-> IF f = "events.csv" THEN old ELSE NoFile]

Tick ==
    /\ now < MaxClock
    /\ now' = now + 1
    /\ UNCHANGED <<crawl_vars, files, api_vars, saved, agg>>

\* A variant whose caller still exports the (empty) list on the failure.
ListingFails_exported ==
    /\ pc = "start"
    /\ pc' = "aborted"
    /\ sink' = Append(sink, events)
    /\ UNCHANGED <<now, containers, events, i, inflight, calls, delays, files, api_vars, saved, agg>>

\* scraper.py 99-105: the listing page does not load, or div.tour_container
\* does not appear within the timeout; the exception leaves scrape_events
\* and main.
ListingFails ==
    /\ pc = "start"
    /\ pc' = "aborted"
    /\ UNCHANGED <<now, containers, events, i, inflight, calls, delays, sink, files, api_vars, saved, agg>>

\* scraper.py 99-154: the listing loads and the event list is built.
ScrapeListing ==
    /\ pc = "start"
    /\ \E listing \in Listings :
          /\ containers' = listing
          /\ events' = build_events(listing, 1, <<>>, {}, now)
    /\ calls' = [k \in 1..Len(events') |-> <<>>]
    /\ i' = 1
    /\ pc' = IF events' = <<>> THEN "returned" ELSE "resolve"
    /\ UNCHANGED <<now, inflight, delays, sink, files, api_vars, saved, agg>>

\* A variant that starts the navigations of all remaining events at once.
StartResolve_gathered ==
    /\ pc = "resolve"
    /\ inflight' = inflight \cup { k \in 1..Len(events) : k >= i }
    /\ pc' = "navigating"
    /\ UNCHANGED <<now, containers, events, i, calls, delays, sink, files, api_vars, saved, agg>>

\* scraper.py 158 and 46: the resolver is called for event i and navigates.
StartResolve ==
    /\ pc = "resolve"
    /\ inflight' = inflight \cup {i}
    /\ pc' = "navigating"
    /\ UNCHANGED <<now, containers, events, i, calls, delays, sink, files, api_vars, saved, agg>>

\* A variant without the default-city rule.
coerce_nothing(city) == city

\* A variant whose default names the capital region instead of a governorate.
coerce_capital_region(city) == IF city = "Unknown" THEN "Grand Tunis" ELSE city

\* scraper.py 165-166.
coerce_unknown(city) == IF city = "Unknown" THEN "Tunis" ELSE city

\* A variant whose resolver lets a page's exception escape the run.
FinishResolve_uncaught ==
    /\ pc = "navigating"
    /\ \E p \in Pages :
          LET city == extract_city_from_event_page(p, events[i].name)
          IN IF city = "Error"
             THEN /\ pc' = "aborted"
                  /\ UNCHANGED <<calls, events>>
             ELSE /\ calls' = [calls EXCEPT ![i] = Append(@, [page |-> p, result |-> city])]
                  /\ events' = [events EXCEPT ![i].city = coerce_unknown(city)]
                  /\ pc' = "delay"
    /\ inflight' = inflight \ {i}
    /\ UNCHANGED <<now, containers, i, delays, sink, files, api_vars, saved, agg>>

\* scraper.py 46-87 and 165-168: the navigation ends (on page p), the
\* resolver returns and the city is assigned.
FinishResolve ==
    /\ pc = "navigating"
    /\ \E p \in Pages :
          LET city == extract_city_from_event_page(p, events[i].name)
          IN /\ calls' = [calls EXCEPT ![i] = Append(@, [page |-> p, result |-> city])]
             /\ events' = [events EXCEPT ![i].city = coerce_unknown(city)]
    /\ inflight' = inflight \ {i}
    /\ pc' = "delay"
    /\ UNCHANGED <<now, containers, i, delays, sink, files, api_vars, saved, agg>>

\* scraper.py 170-173: the fixed delay, then the next event or the return.
Delay ==
    /\ pc = "delay"
    /\ delays' = delays + 1
    /\ i' = i + 1
    /\ pc' = IF i < Len(events) THEN "resolve" ELSE "returned"
    /\ UNCHANGED <<now, containers, events, inflight, calls, sink, files, api_vars, saved, agg>>

\* scraper.py 181-200: the rows DictWriter writes.
csv_rows(events_) == events_

\* A variant without the alternate name: the export goes to events.csv
\* whether or not the old file could be removed.
SaveToCsv_same_name ==
    /\ pc = "returned"
    /\ sink' = Append(sink, events)
    /\ pc' = "done"
    /\ IF events = <<>>
       THEN /\ files' = files
            /\ saved' = [NotSaved EXCEPT !.called = TRUE, !.at = now,
                                         !.existed = files["events.csv"].exists]
       ELSE \E locked \in BOOLEAN, unwritable \in BOOLEAN :
              LET exists == files["events.csv"].exists
              IN /\ files' = IF unwritable THEN files
                             ELSE [files EXCEPT !["events.csv"] = File(csv_rows(events))]
                 /\ saved' = [called |-> TRUE, existed |-> exists,
                              locked |-> exists /\ locked, unwritable |-> unwritable,
                              at |-> now,
                              result |-> IF unwritable THEN Absent ELSE Some("events.csv")]
    /\ UNCHANGED <<now, containers, events, i, inflight, calls, delays, api_vars, agg>>

\* scraper.py 176-207 called from main (213).  locked: os.remove raises
\* PermissionError; unwritable: open(..., 'w') raises PermissionError.
SaveToCsv ==
    /\ pc = "returned"
    /\ sink' = Append(sink, events)
    /\ pc' = "done"
    /\ IF events = <<>>
       THEN /\ files' = files
            /\ saved' = [NotSaved EXCEPT !.called = TRUE, !.at = now,
                                         !.existed = files["events.csv"].exists]
       ELSE \E locked \in BOOLEAN, unwritable \in BOOLEAN :
              LET exists == files["events.csv"].exists
                  final_filename == IF exists /\ locked THEN alt_name(now) ELSE "events.csv"
                  removed == IF exists /\ ~locked
                             THEN [files EXCEPT !["events.csv"] = NoFile]
                             ELSE files
              IN /\ files' = IF unwritable
                             THEN removed
                             ELSE [removed EXCEPT ![final_filename] = File(csv_rows(events))]
                 /\ saved' = [called |-> TRUE, existed |-> exists,
                              locked |-> exists /\ locked, unwritable |-> unwritable,
                              at |-> now,
                              result |-> IF unwritable THEN Absent ELSE Some(final_filename)]
    /\ UNCHANGED <<now, containers, events, i, inflight, calls, delays, api_vars, agg>>

Next ==
    \/ Tick
    \/ ListingFails
    \/ ScrapeListing
    \/ StartResolve
    \/ FinishResolve
    \/ Delay
    \/ SaveToCsv

Spec == Init /\ [][Next]_vars

\* ----------------------------------------------- utils/heatmap.py: tables
TUNISIAN_GOVERNORATES ==
    << "Ariana", "Béja", "Ben Arous", "Bizerte", "Gabès", "Gafsa",
       "Jendouba", "Kairouan", "Kasserine", "Kebili", "Kef", "Mahdia",
       "Manouba", "Medenine", "Monastir", "Nabeul", "Sfax", "Sidi Bouzid",
       "Siliana", "Sousse", "Tataouine", "Tozeur", "Tunis", "Zaghouan" >>

Governorates == { TUNISIAN_GOVERNORATES[k] : k \in 1..Len(TUNISIAN_GOVERNORATES) }

\* heatmap.py 15-40: the keys of CITY_TO_GOVERNORATE, each mapped to itself.
CityToGovernorateKeys ==
    { "Tunis", "Ariana", "Ben Arous", "Manouba", "Nabeul", "Zaghouan",
      "Bizerte", "Béja", "Jendouba", "Kef", "Siliana", "Sousse",
      "Monastir", "Mahdia", "Sfax", "Kairouan", "Kasserine", "Sidi Bouzid",
      "Gabès", "Medenine", "Tataouine", "Gafsa", "Tozeur", "Kebili" }

\* CITY_TO_GOVERNORATE.get(city, city)
city_to_governorate(city) == IF city \in CityToGovernorateKeys THEN city ELSE city

\* str.strip() on the city strings of the model.
StripTable == { <<" Sfax ", "Sfax">>, <<"  ", "">> }
strip(text) ==
    IF \E p \in StripTable : p[1] = text
    THEN (CHOOSE p \in StripTable : p[1] = text)[2]
    ELSE text

\* A variant with the yellow band one score wider.
get_color_for_score_wide_yellow(score) ==
    IF score = 0 THEN "#3388FF"
    ELSE IF 1 <= score /\ score <= 4 THEN "#FFD700"
    ELSE IF 5 <= score /\ score <= 6 THEN "#FF8800"
    ELSE "#FF0000"

\* heatmap.py 43-58.
get_color_for_score(score) ==
    IF score = 0 THEN "#3388FF"
    ELSE IF 1 <= score /\ score <= 3 THEN "#FFD700"
    ELSE IF 4 <= score /\ score <= 6 THEN "#FF8800"
    ELSE "#FF0000"

\* event.get('city', '')
get_city(event) == IF "city" \in DOMAIN event THEN event.city ELSE ""

\* A variant that looks the city up as it comes, without strip().
target_gov_unstripped(event) ==
    LET city == get_city(event)
        governorate == city_to_governorate(city)
    IN IF city = "" \/ city \in {"Unknown", "Error", "Pending"} THEN NoMatch
       ELSE IF governorate \in Governorates THEN governorate
       ELSE IF city \in Governorates THEN city
       ELSE NoMatch

\* heatmap.py 74-85 and 112-124: the bucket an event is counted in, or
\* NoMatch when it is skipped or dropped.
target_gov(event) ==
    LET city == strip(get_city(event))
        governorate == city_to_governorate(city)
    IN IF city = "" \/ city \in {"Unknown", "Error", "Pending"} THEN NoMatch
       ELSE IF governorate \in Governorates THEN governorate
       ELSE IF city \in Governorates THEN city
       ELSE NoMatch

\* A variant that counts a city matching nothing under its own name, as
\* scores[city] = scores.get(city, 0) + 1 would.
RECURSIVE scores_upto_open(_, _)
scores_upto_open(events_, n) ==
    IF n = 0 THEN [gov \in Governorates |-> 0]
    ELSE LET scores == scores_upto_open(events_, n - 1)
             city == strip(get_city(events_[n]))
             gov == target_gov(events_[n])
             key == IF gov = NoMatch THEN city ELSE gov
         IN IF city = "" \/ city \in {"Unknown", "Error", "Pending"} THEN scores
            ELSE [k \in DOMAIN scores \cup {key} |->
                    IF k = key THEN (IF k \in DOMAIN scores THEN scores[k] ELSE 0) + 1
                    ELSE scores[k]]

\* heatmap.py 61-87: the loop over the first n events.
RECURSIVE scores_upto(_, _)
scores_upto(events_, n) ==
    IF n = 0 THEN [gov \in Governorates |-> 0]
    ELSE LET scores == scores_upto(events_, n - 1)
             gov == target_gov(events_[n])
         IN IF gov = NoMatch THEN scores ELSE [scores EXCEPT ![gov] = @ + 1]

calculate_governorate_scores(events_) == scores_upto(events_, Len(events_))

\* A variant that keeps a sixth sample (<= 5 for < 5).
RECURSIVE heatmap_upto_six(_, _)
heatmap_upto_six(events_, n) ==
    IF n = 0
    THEN [gov \in Governorates |->
             [score |-> 0, color |-> get_color_for_score(0),
              events_count |-> 0, events |-> <<>>]]
    ELSE LET heatmap_data == heatmap_upto_six(events_, n - 1)
             gov == target_gov(events_[n])
         IN IF gov = NoMatch THEN heatmap_data
            ELSE LET data == heatmap_data[gov]
                 IN [heatmap_data EXCEPT ![gov] =
                        [score |-> data.score + 1,
                         color |-> get_color_for_score(data.score + 1),
                         events_count |-> data.events_count + 1,
                         events |-> IF Len(data.events) <= 5
                                    THEN Append(data.events, events_[n])
                                    ELSE data.events]]

\* A variant that colours the bucket before the increment.
RECURSIVE heatmap_upto_stale(_, _)
heatmap_upto_stale(events_, n) ==
    IF n = 0
    THEN [gov \in Governorates |->
             [score |-> 0, color |-> get_color_for_score(0),
              events_count |-> 0, events |-> <<>>]]
    ELSE LET heatmap_data == heatmap_upto_stale(events_, n - 1)
             gov == target_gov(events_[n])
         IN IF gov = NoMatch THEN heatmap_data
            ELSE LET data == heatmap_data[gov]
                 IN [heatmap_data EXCEPT ![gov] =
                        [score |-> data.score + 1,
                         color |-> get_color_for_score(data.score),
                         events_count |-> data.events_count + 1,
                         events |-> IF Len(data.events) < 5
                                    THEN Append(data.events, events_[n])
                                    ELSE data.events]]

\* heatmap.py 100-136: the loop over the first n events.
RECURSIVE heatmap_upto(_, _)
heatmap_upto(events_, n) ==
    IF n = 0
    THEN [gov \in Governorates |->
             [score |-> 0, color |-> get_color_for_score(0),
              events_count |-> 0, events |-> <<>>]]
    ELSE LET heatmap_data == heatmap_upto(events_, n - 1)
             gov == target_gov(events_[n])
         IN IF gov = NoMatch THEN heatmap_data
            ELSE LET data == heatmap_data[gov]
                 IN [heatmap_data EXCEPT ![gov] =
                        [score |-> data.score + 1,
                         color |-> get_color_for_score(data.score + 1),
                         events_count |-> data.events_count + 1,
                         events |-> IF Len(data.events) < 5
                                    THEN Append(data.events, events_[n])
                                    ELSE data.events]]

get_heatmap_data(events_) == heatmap_upto(events_, Len(events_))

RECURSIVE sum_scores(_, _)
sum_scores(scores, n) ==
    IF n = 0 THEN 0 ELSE sum_scores(scores, n - 1) + scores[TUNISIAN_GOVERNORATES[n]]

\* A variant that counts every governorate as active.
get_heatmap_summary_all_active(events_) ==
    LET scores == calculate_governorate_scores(events_)
    IN [total_events |-> sum_scores(scores, Len(TUNISIAN_GOVERNORATES)),
        active_governorates |-> Len(TUNISIAN_GOVERNORATES),
        total_governorates |-> Len(TUNISIAN_GOVERNORATES),
        governorates_with_events |->
            SelectSeq(TUNISIAN_GOVERNORATES, LAMBDA g : scores[g] > 0)]

\* heatmap.py 139-155.
get_heatmap_summary(events_) ==
    LET scores == calculate_governorate_scores(events_)
        positive == { k \in 1..Len(TUNISIAN_GOVERNORATES) :
                        scores[TUNISIAN_GOVERNORATES[k]] > 0 }
    IN [total_events |-> sum_scores(scores, Len(TUNISIAN_GOVERNORATES)),
        active_governorates |-> Cardinality(positive),
        total_governorates |-> Len(TUNISIAN_GOVERNORATES),
        governorates_with_events |->
            SelectSeq(TUNISIAN_GOVERNORATES, LAMBDA g : scores[g] > 0)]

\* ------------------------------------------ routes/events.py: the storage
MaxId == 2

Max(S) == CHOOSE x \in S : \A y \in S : y <= x
next_id(table) == IF table = {} THEN 1 ELSE Max({ r.id : r \in table }) + 1
by_url(table, url) == { r \in table : r.url = url }

\* Event.query...all() returns the rows in id order.
RECURSIVE in_id_order(_)
in_id_order(table) ==
    IF table = {} THEN <<>>
    ELSE LET first == CHOOSE r \in table : \A q \in table : r.id <= q.id
         IN <<first>> \o in_id_order(table \ {first})

\* What the import's session reads: its own transaction once it has
\* written, the committed table before.
session_view == IF imp.tx.open THEN imp.tx.view ELSE db

Columns == { "name", "place", "date", "price", "city", "status",
             "scraped_at", "updated_at" }

\* The UPDATE the unit of work emits for a modified object: the columns
\* whose value differs from the loaded one, on the row of that id.
apply_update(row, op) ==
    [c \in DOMAIN row |->
        IF c \in Columns /\ op.rec[c] # op.loaded[c] THEN op.rec[c] ELSE row[c]]

\* session.flush() of one pending operation against a table: the new table,
\* or the error the statement raises.
flush(op, table) ==
    IF op.kind = "insert"
    THEN IF by_url(table, op.rec.url) # {}
         THEN [err |-> "IntegrityError", view |-> table]
         ELSE [err |-> "", view |-> table \cup { [op.rec EXCEPT !.id = next_id(table)] }]
    ELSE IF \E r \in table : r.id = op.rec.id
         THEN LET r == CHOOSE q \in table : q.id = op.rec.id
              IN [err |-> "", view |-> (table \ {r}) \cup { apply_update(r, op) }]
         ELSE [err |-> "StaleDataError", view |-> table]

flush_pending(pending, table) ==
    IF pending = <<>> THEN [err |-> "", view |-> table] ELSE flush(pending[1], table)

\* The ids stay within the model's bound.
id_in_bound(pending, table) ==
    pending # <<>> /\ pending[1].kind = "insert" => next_id(table) <= MaxId

\* An answer stays in resp, and the list of a heatmap request in handed,
\* until it is delivered; the requests are taken up one answer at a time.
Delivered == resp = NoResp /\ handed = <<>>

Deliver ==
    /\ ~Delivered
    /\ resp' = NoResp
    /\ handed' = <<>>
    /\ UNCHANGED <<now, crawl_vars, saved, agg, files, db, imp>>

\* events.py 42-50: the request names a file; 404 when it does not exist.
ImportStart ==
    /\ Delivered
    /\ imp.pc = "idle"
    /\ \E filename \in FileNames :
          IF ~files[filename].exists
          THEN /\ resp' = [NoResp EXCEPT !.code = 404]
               /\ imp' = imp
          ELSE /\ imp' = [IdleImport EXCEPT !.pc = "rows", !.rows = files[filename].rows]
               /\ resp' = resp
    /\ UNCHANGED <<now, crawl_vars, saved, agg, files, db, handed>>

\* A variant of the update path without the status assignment.
updated_row_keeps_status(existing, row, t) ==
    [existing EXCEPT !.name = row.name, !.place = row.place, !.date = row.date,
                     !.price = row.price, !.city = row.city, !.updated_at = t,
                     !.scraped_at = row.scraped_at]

\* events.py 70-78: the attributes the update path assigns.
updated_row(existing, row, t) ==
    [existing EXCEPT !.name = row.name, !.place = row.place, !.date = row.date,
                     !.price = row.price, !.city = row.city, !.updated_at = t,
                     !.status = "approved", !.scraped_at = row.scraped_at]

\* events.py 82-91: the Event the insert path adds.
new_row(row) ==
    Row(0, row.name, row.place, row.date, row.price, row.url, row.city,
        "approved", 0, row.scraped_at, row.scraped_at)

\* events.py 56-99: one row of the CSV.  The query autoflushes what the
\* previous row left pending; an IntegrityError of that flush is caught
\* here (rollback, skipped += 1), any other exception is appended to errors.
ImportRow ==
    /\ Delivered
    /\ imp.pc = "rows"
    /\ imp.k <= Len(imp.rows)
    /\ id_in_bound(imp.pending, session_view)
    /\ LET row == imp.rows[imp.k]
           f == flush_pending(imp.pending, session_view)
           next == [imp EXCEPT !.k = imp.k + 1]
       IN imp' =
            IF imp.failed
            THEN [next EXCEPT !.errors = imp.errors + 1]
            ELSE IF f.err = "IntegrityError"
            THEN [next EXCEPT !.pending = <<>>, !.tx = NoTx, !.updates = <<>>,
                              !.skipped = imp.skipped + 1,
                              !.conflicts = imp.conflicts + 1]
            ELSE IF f.err # ""
            THEN [next EXCEPT !.pending = <<>>, !.tx = NoTx, !.updates = <<>>,
                              !.failed = TRUE, !.errors = imp.errors + 1]
            ELSE LET tx == IF imp.pending = <<>> THEN imp.tx
                           ELSE [open |-> TRUE, view |-> f.view]
                     found == by_url(f.view, row.url)
                 IN IF found # {}
                    THEN LET existing == CHOOSE r \in found : TRUE
                             op == [kind |-> "update", loaded |-> existing,
                                    rec |-> updated_row(existing, row, now),
                                    row |-> row]
                         IN [next EXCEPT !.tx = tx, !.pending = <<op>>,
                                         !.skipped = imp.skipped + 1,
                                         !.updates = Append(imp.updates, op)]
                    ELSE LET op == [kind |-> "insert", loaded |-> new_row(row),
                                    rec |-> new_row(row), row |-> row]
                         IN [next EXCEPT !.tx = tx, !.pending = <<op>>,
                                         !.imported = imp.imported + 1]
    /\ UNCHANGED <<now, crawl_vars, saved, agg, files, db, resp, handed>>

\* events.py 101-113: the commit after the last row (it flushes what the
\* last row left pending); any exception: rollback and abort(500).
ImportCommit ==
    /\ Delivered
    /\ imp.pc = "rows"
    /\ imp.k > Len(imp.rows)
    /\ id_in_bound(imp.pending, session_view)
    /\ LET f == flush_pending(imp.pending, session_view)
           conflicts == imp.conflicts
                        + (IF ~imp.failed /\ f.err = "IntegrityError" THEN 1 ELSE 0)
       IN IF imp.failed \/ f.err # ""
          THEN /\ db' = db
               /\ resp' = [NoResp EXCEPT !.code = 500, !.conflicts = conflicts]
          ELSE /\ db' = f.view
               /\ resp' = [code |-> 200, imported |-> imp.imported,
                           updated |-> imp.skipped, errors |-> imp.errors,
                           conflicts |-> conflicts,
                           inserted |-> Cardinality(f.view) - Cardinality(db)]
    /\ imp' = IdleImport
    /\ UNCHANGED <<now, crawl_vars, saved, agg, files, handed>>

SuggestUrls == { <<"https://teskerti.tn", "/e1">>, <<"https://teskerti.tn", "/e2">> }
SuggestCities == { "Sousse" }

\* events.py 119-154: POST /suggest by user 1, with name, city and url.
\* (409 when the URL is stored; while the import holds the write lock the
\* request waits.)
EventSuggest ==
    /\ Delivered
    /\ ~imp.tx.open
    /\ next_id(db) <= MaxId
    /\ \E url \in SuggestUrls, city \in SuggestCities :
          db' = IF by_url(db, url) # {} THEN db
                ELSE db \cup { Row(next_id(db), <<"Suggested">>, "TBD", "TBD", "TBD",
                                   url, city, "pending", 1, now, now) }
    /\ UNCHANGED <<now, crawl_vars, saved, agg, files, imp, resp, handed>>

\* events.py 160-179: PUT /<id>/status with a valid status (an invalid one
\* and an unknown id change nothing); updated_at follows through onupdate.
EventStatus ==
    /\ Delivered
    /\ ~imp.tx.open
    /\ \E r \in db, new_status \in {"approved", "pending", "rejected"} :
          db' = IF r.status = new_status THEN db
                ELSE (db \ {r}) \cup { [r EXCEPT !.status = new_status, !.updated_at = now] }
    /\ UNCHANGED <<now, crawl_vars, saved, agg, files, imp, resp, handed>>

\* events.py 260-269: DELETE /<id>.
EventDelete ==
    /\ Delivered
    /\ ~imp.tx.open
    /\ \E r \in db : db' = db \ {r}
    /\ UNCHANGED <<now, crawl_vars, saved, agg, files, imp, resp, handed>>

\* A variant of the query without the status filter.
events_data_all == [k \in 1..Len(in_id_order(db)) |-> to_dict(in_id_order(db)[k])]

\* routes/heatmap.py 18-21 and 50-51: the records the endpoints pass on.
events_data == [k \in 1..Len(in_id_order({ r \in db : r.status = "approved" })) |->
                   to_dict(in_id_order({ r \in db : r.status = "approved" })[k])]

\* routes/heatmap.py 15-42 and 48-69: GET /api/heatmap/ and /stats.
HeatmapGet ==
    /\ Delivered
    /\ handed' = <<events_data>>
    /\ UNCHANGED <<now, crawl_vars, saved, agg, files, db, imp, resp>>

\* A variant of the loop that assigns the city only when the resolver
\* did not fail.
resolve_all_but_errors(events_, pages_) ==
    [k \in 1..Len(events_) |->
        IF extract_city_from_event_page(pages_[k], events_[k].name) = "Error"
        THEN events_[k]
        ELSE [events_[k] EXCEPT !.city =
                coerce_unknown(extract_city_from_event_page(pages_[k], events_[k].name))]]

\* scraper.py 156-168 as one step: the list after the resolution loop, when
\* event k's navigation ended on pages_[k].
resolve_all(events_, pages_) ==
    [k \in 1..Len(events_) |->
        [events_[k] EXCEPT !.city =
            coerce_unknown(extract_city_from_event_page(pages_[k], events_[k].name))]]

\* The state main() ends in after crawling `listing` at time 0 with event
\* k's navigation ending on pages_[k], the export written to events.csv.
FinishedRun(listing, pages_) ==
    LET raw == build_events(listing, 1, <<>>, {}, 0)
        resolved == resolve_all(raw, pages_)
    IN /\ pc = "done"
       /\ containers = listing
       /\ events = resolved
       /\ i = Len(raw) + 1
       /\ inflight = {}
       /\ calls = [k \in 1..Len(raw) |->
                     << [page |-> pages_[k],
                         result |-> extract_city_from_event_page(pages_[k], raw[k].name)] >>]
       /\ delays = Len(raw)
       /\ sink = <<resolved>>
       /\ saved = [NotSaved EXCEPT !.called = TRUE,
                                  !.result = IF resolved # <<>> THEN Some("events.csv")
                                             ELSE Absent]
       /\ files = [f \in FileNames |->
                     IF f = "events.csv" /\ resolved # <<>>
                     THEN File(csv_rows(resolved)) ELSE NoFile]

\* The run the API is checked after: two listed events, the first one's
\* page unreachable, the second one's without any city.
ApiListing ==
    << Container(Some(<<"/e1">>), Some(<<"Soirée", "à", "MONASTIR">>),
                 "Le Colisée", "12 Dec", "30 DT"),
       Container(Some(<<"/e2">>), Absent, "Salle", NoElem, "20 DT") >>
ApiPages ==
    << Page("goto", <<>>, <<>>),
       Page("none", << <<"Avenue", "Sfaxien">> >>, << <<"Salle">> >>) >>

InitAfterCrawl ==
    /\ now = 0
    /\ FinishedRun(ApiListing, ApiPages)
    /\ InitApi
    /\ agg = NoCall

TickApi ==
    /\ now < MaxClock
    /\ now' = now + 1
    /\ UNCHANGED <<crawl_vars, files, api_vars, saved, agg>>

NextApi ==
    \/ TickApi
    \/ ImportStart
    \/ ImportRow
    \/ ImportCommit
    \/ EventSuggest
    \/ EventStatus
    \/ EventDelete
    \/ HeatmapGet
    \/ Deliver

SpecApi == InitAfterCrawl /\ [][NextApi]_vars

\* ------------------------------------ utils/heatmap.py: the functions called
MaxEvents == 7
MaxShort == 3
MaxScore == 9

\* The cities of the collections: up to MaxEvents events over LongCities,
\* up to MaxShort events over AggCities.
LongCities == { "Sfax", "Monastir", "Error" }
AggCities == { "Sfax", " Sfax ", "sfax", "Monastir", "Paris",
               "Unknown", "Error", "Pending", "", "  " }

\* An event dictionary: its city and, for the rest of the record, its
\* position in the collection.
with_ids(cities) == [k \in 1..Len(cities) |-> [id |-> k, city |-> cities[k]]]

ExampleCities == << "Monastir", "Unknown", "Sfax", "Sfax", "Mahdia" >>
NoCityEvents == << [id |-> 1], [id |-> 2, city |-> "Tunis"] >>

AggInputs ==
    { with_ids(cities) : cities \in SeqsUpTo(LongCities, MaxEvents)
                                     \cup SeqsUpTo(AggCities, MaxShort) }
    \cup { with_ids(ExampleCities), NoCityEvents }

InitAgg ==
    /\ now = 0
    /\ InitCrawl
    /\ InitApi
    /\ files = [f \in FileNames |-> NoFile]
    /\ \E events_ \in AggInputs : agg = [NoCall EXCEPT !.events = events_]

\* Each call below is made on the arguments as drawn, agg.fn = "" telling
\* that no result is there yet.
\* heatmap.py 61-87 called on the collection.
CallScores ==
    /\ agg.fn = ""
    /\ agg' = [NoCall EXCEPT !.events = agg.events,
                             !.fn = "calculate_governorate_scores",
                             !.result = calculate_governorate_scores(agg.events)]
    /\ UNCHANGED <<now, crawl_vars, files, api_vars, saved>>

\* heatmap.py 90-136 called on the collection.
CallData ==
    /\ agg.fn = ""
    /\ agg' = [NoCall EXCEPT !.events = agg.events,
                             !.fn = "get_heatmap_data",
                             !.result = get_heatmap_data(agg.events)]
    /\ UNCHANGED <<now, crawl_vars, files, api_vars, saved>>

\* heatmap.py 139-155 called on the collection.
CallSummary ==
    /\ agg.fn = ""
    /\ agg' = [NoCall EXCEPT !.events = agg.events,
                             !.fn = "get_heatmap_summary",
                             !.result = get_heatmap_summary(agg.events)]
    /\ UNCHANGED <<now, crawl_vars, files, api_vars, saved>>

\* heatmap.py 43-58 called on a score.
CallColor ==
    /\ agg.fn = ""
    /\ \E score \in 0..MaxScore :
          agg' = [NoCall EXCEPT !.events = agg.events,
                               !.fn = "get_color_for_score",
                               !.score = score,
                               !.result = get_color_for_score(score)]
    /\ UNCHANGED <<now, crawl_vars, files, api_vars, saved>>

NextAgg ==
    \/ CallScores
    \/ CallData
    \/ CallSummary
    \/ CallColor

SpecAgg == InitAgg /\ [][NextAgg]_vars

\* =================================================================== claims
KnownCities ==
    { TUNISIAN_CITIES[k] : k \in 1..Len(TUNISIAN_CITIES) }
    \cup { CITY_ALIASES[k][2] : k \in 1..Len(CITY_ALIASES) }
    \cup { VENUE_CITY_MAP[k][2] : k \in 1..Len(VENUE_CITY_MAP) }

\* C1: the tiers decide in the order title alias, address block, venue name:
\* a title match gives the title's city whatever the page's blocks say, an
\* address match wins over a venue match, and 'Unknown' is returned only
\* when no tier matches (each tier counted when the resolver reached it
\* without an exception).
C1_TierPrecedence ==
    \A k \in 1..Len(calls) : \A c \in 1..Len(calls[k]) :
        LET p == calls[k][c].page
            r == calls[k][c].result
            t == title_city(events[k].name)
            a == address_city(p.address)
            v == venue_city(p.venue)
        IN /\ (p.fault # "goto" /\ t # NoMatch) => r = t
           /\ (p.fault \notin {"goto", "address"} /\ t = NoMatch /\ a # NoMatch) => r = a
           /\ (p.fault = "none" /\ t = NoMatch /\ a = NoMatch /\ v # NoMatch) => r = v
           /\ (r = "Unknown") => (t = NoMatch /\ a = NoMatch /\ v = NoMatch)
           /\ (p.fault = "none" /\ t = NoMatch /\ a = NoMatch /\ v = NoMatch) => r = "Unknown"

\* C1 witness: both cases of the claim have happened in one run: a title
\* naming Monastir on a page whose address block names Sfax resolved to
\* Monastir, and an address block (Sfax) won over a venue match (Tunis).
C1_Witness ==
    /\ \E k \in 1..Len(calls) : \E c \in 1..Len(calls[k]) :
          /\ title_city(events[k].name) = "Monastir"
          /\ address_city(calls[k][c].page.address) = "Sfax"
          /\ calls[k][c].result = "Monastir"
    /\ \E k \in 1..Len(calls) : \E c \in 1..Len(calls[k]) :
          /\ title_city(events[k].name) = NoMatch
          /\ address_city(calls[k][c].page.address) = "Sfax"
          /\ venue_city(calls[k][c].page.venue) = "Tunis"
          /\ calls[k][c].result = "Sfax"

\* C2: an event whose title matches an alias is resolved to the mapped city
\* without any navigation to its page, reachable or not.
C2_TitleBeforeFetch ==
    \A k \in 1..Len(events) :
        title_city(events[k].name) # NoMatch =>
            /\ k \notin inflight
            /\ \A c \in 1..Len(calls[k]) : calls[k][c].result = title_city(events[k].name)

\* C3: a page's failure is returned as 'Error' and the run goes on: the run
\* aborts only before the list exists, and once scrape_events has returned,
\* the resolver was called exactly once for every event of the full list.
C3_FailureDoesNotStopCrawl ==
    /\ \A k \in 1..Len(calls) : \A c \in 1..Len(calls[k]) :
          calls[k][c].page.fault = "goto" =>
              (calls[k][c].result = "Error" /\ events[k].city = "Error")
    /\ pc = "aborted" => (containers = <<>> /\ events = <<>>)
    /\ pc \in {"returned", "done"} =>
          /\ Len(calls) = Len(events)
          /\ \A k \in 1..Len(events) : Len(calls[k]) = 1
          /\ [k \in 1..Len(events) |-> events[k].url]
                = [k \in 1..Len(build_events(containers, 1, <<>>, {}, 0)) |->
                      build_events(containers, 1, <<>>, {}, 0)[k].url]

\* C3 witness: the first event's page could not be reached, and the run
\* still resolved the second event and returned both.
C3_Witness ==
    /\ pc = "returned"
    /\ Len(events) = 2
    /\ calls[1][1].page.fault = "goto"
    /\ events[1].city = "Error"
    /\ Len(calls[2]) = 1
    /\ events[2].city # "Error"

\* The absolute URL a listing href stands for.
absolute_url(href) ==
    IF Head(href) = "https://teskerti.tn" THEN href ELSE <<"https://teskerti.tn">> \o href

\* The containers that carry a link, in listing order.
Linked == { j \in 1..Len(containers) : containers[j].href # Absent }
FirstWithUrl(u) ==
    FirstIndex({ j \in Linked : absolute_url(containers[j].href[1]) = u })

\* C6: the list holds one record for each absolute URL of the listing, made
\* from the first item that links to it, in listing order; no item is
\* resolved that is not in the list.
C6_UniqueUrls ==
    pc # "start" =>
        /\ \A a, b \in 1..Len(events) : a # b => events[a].url # events[b].url
        /\ { events[k].url : k \in 1..Len(events) }
              = { absolute_url(containers[j].href[1]) : j \in Linked }
        /\ \A k \in 1..Len(events) :
              LET c == containers[FirstWithUrl(events[k].url)]
              IN /\ events[k].name = (IF c.title = Absent THEN <<"Unknown">> ELSE c.title[1])
                 /\ events[k].place = (IF c.place = NoElem THEN "N/A" ELSE c.place)
        /\ \A a, b \in 1..Len(events) :
              a < b => FirstWithUrl(events[a].url) < FirstWithUrl(events[b].url)
        /\ Len(calls) = Len(events)

\* C6 witness: a relative and an absolute link to the same page gave one
\* record, the first item's, and the run resolved it.
C6_Witness ==
    /\ Len(containers) = 2
    /\ containers[1].href = Some(<<"/e1">>)
    /\ containers[2].href = Some(<<"https://teskerti.tn", "/e1">>)
    /\ Len(events) = 1
    /\ events[1].name = containers[1].title[1]
    /\ Len(calls[1]) = 1

\* C7: in the returned list a resolver result 'Unknown' has become 'Tunis',
\* a result 'Error' is kept, and every city is a known city name or 'Error'.
C7_ReturnedCities ==
    /\ \A k \in 1..Len(calls) : \A c \in 1..Len(calls[k]) :
          /\ calls[k][c].result = "Unknown" => events[k].city = "Tunis"
          /\ calls[k][c].result = "Error" => events[k].city = "Error"
    /\ pc \in {"returned", "done"} =>
          \A k \in 1..Len(events) :
              /\ events[k].city \in KnownCities \cup {"Error"}
              /\ events[k].city \notin {"Unknown", "Pending"}

\* C7 witness: a returned list with one coerced and one failed resolution.
C7_Witness ==
    /\ pc = "returned"
    /\ \E k \in 1..Len(events) :
          calls[k][1].result = "Unknown" /\ events[k].city = "Tunis"
    /\ \E k \in 1..Len(events) :
          calls[k][1].result = "Error" /\ events[k].city = "Error"

\* C9: the run is one sequential flow: the list is complete before the
\* first resolution, events are resolved one at a time in list order with a
\* delay after each, at most one navigation is in progress, and the list
\* reaches save_to_csv only when every event has been resolved.
C9_SequentialRun ==
    /\ Cardinality(inflight) <= 1
    /\ pc \in {"resolve", "navigating", "delay"} =>
          /\ i \in 1..Len(events)
          /\ [k \in 1..Len(events) |-> events[k].url]
                = [k \in 1..Len(events) |->
                      build_events(containers, 1, <<>>, {}, 0)[k].url]
          /\ \A k \in 1..Len(events) :
                Len(calls[k]) = (IF k < i \/ (k = i /\ pc = "delay") THEN 1 ELSE 0)
          /\ delays = i - 1
          /\ inflight = (IF pc = "navigating" THEN {i} ELSE {})
          /\ sink = <<>>
    /\ sink # <<>> =>
          /\ inflight = {}
          /\ sink = <<events>>
          /\ delays = Len(events)
          /\ \A k \in 1..Len(events) : Len(calls[k]) = 1 /\ events[k].city # "Pending"

\* C9 witness: the second of two events is being navigated to, after the
\* first was resolved and its delay elapsed.
C9_Witness ==
    /\ pc = "navigating"
    /\ Len(events) = 2
    /\ i = 2
    /\ delays = 1
    /\ Len(calls[1]) = 1

\* C10: when the listing container is not found the run aborts: there is no
\* event list, no event is resolved and save_to_csv is never called.
C10_ListingFailureAborts ==
    pc = "aborted" =>
        /\ events = <<>>
        /\ calls = <<>>
        /\ inflight = {}
        /\ sink = <<>>
        /\ \A f \in FileNames : f # "events.csv" => ~files[f].exists
        /\ files["events.csv"] \in { NoFile, File(OldExport) }

\* C10 witness: the run has aborted on the listing.
C10_Witness == pc = "aborted" /\ containers = <<>>

\* The update operations of the import in progress that have been flushed.
FlushedUpdates ==
    { u \in 1..Len(imp.updates) : u < Len(imp.updates) \/ imp.pending = <<>> }

Transient == {"Pending", "Error"}

C5_ImportKeepsStatus ==
    \A u \in 1..Len(imp.updates) :
        LET op == imp.updates[u]
        IN /\ op.rec.id = op.loaded.id
           /\ op.rec.status = op.loaded.status
           /\ op.rec.scraped_at = op.loaded.scraped_at
           /\ op.rec.url = op.loaded.url
           /\ op.rec.suggested_by_id = op.loaded.suggested_by_id

\* C5 (amended): on a record found by URL the import assigns name, place,
\* date, price, city and scraped_at from the row, updated_at from the clock
\* and status 'approved', and leaves id, url and suggested_by_id; once
\* written, a record read as pending or rejected is approved.  A row whose
\* URL is not stored is added as a new approved record.
C5_ImportApproves ==
    /\ \A u \in 1..Len(imp.updates) :
          LET op == imp.updates[u]
          IN /\ op.rec.id = op.loaded.id
             /\ op.rec.url = op.loaded.url
             /\ op.rec.url = op.row.url
             /\ op.rec.suggested_by_id = op.loaded.suggested_by_id
             /\ op.rec.name = op.row.name
             /\ op.rec.place = op.row.place
             /\ op.rec.date = op.row.date
             /\ op.rec.price = op.row.price
             /\ op.rec.city = op.row.city
             /\ op.rec.scraped_at = op.row.scraped_at
             /\ op.loaded.updated_at <= op.rec.updated_at
             /\ op.rec.updated_at <= now
             /\ op.rec.status = "approved"
    /\ \A u \in FlushedUpdates :
          LET op == imp.updates[u]
          IN /\ imp.tx.open
             /\ \E r \in imp.tx.view : r.id = op.loaded.id
             /\ \A r \in imp.tx.view :
                   (r.id = op.loaded.id /\ op.loaded.status # "approved")
                       => r.status = "approved"
    /\ (imp.pending # <<>> /\ imp.pending[1].kind = "insert") =>
          /\ imp.pending[1].rec.status = "approved"
          /\ imp.pending[1].rec.url = imp.pending[1].row.url
          /\ imp.tx.open => by_url(imp.tx.view, imp.pending[1].rec.url) = {}

\* C5 witness: the import found a pending suggestion under a row's URL and
\* has written the update.
C5_Witness ==
    \E u \in FlushedUpdates :
        /\ imp.updates[u].loaded.status = "pending"
        /\ \E r \in imp.tx.view :
              /\ r.id = imp.updates[u].loaded.id
              /\ r.status = "approved"
              /\ r.name = imp.updates[u].row.name

\* C8: a uniqueness violation met by the import is recovered: the request
\* answers 200, and the row is counted as updated, not as imported (the
\* imported count is the number of rows the import added).
C8_ConflictRecovered ==
    resp.conflicts > 0 =>
        /\ resp.code = 200
        /\ resp.imported = resp.inserted
        /\ resp.updated >= resp.conflicts

\* The step main() takes through save_to_csv with a non-empty list.
SaveStep == pc = "returned" /\ pc' = "done" /\ events # <<>>

\* C17 (as the claim states it): save_to_csv on a non-empty list writes the
\* export and returns its name: the timestamped alternate name when
\* events.csv exists and cannot be removed, events.csv otherwise.
C17_ExportAlwaysWritten ==
    [][SaveStep =>
          LET final == IF saved'.locked THEN alt_name(now) ELSE "events.csv"
          IN /\ saved'.result = Some(final)
             /\ files'[final] = File(events)]_vars

\* C17 (amended): save_to_csv on a non-empty list raises nothing.  Unless
\* open() raises PermissionError, the export is written and its name
\* returned: under the timestamped alternate name, the old events.csv left
\* as it was, when events.csv exists and cannot be removed; under
\* events.csv, replacing any prior file, otherwise.  When open() raises
\* PermissionError nothing is written and None is returned, a removable
\* prior events.csv being already gone.
C17_ExportUnlessUnwritable ==
    [][SaveStep =>
          LET exists == files["events.csv"].exists
              s == saved'
          IN /\ s.called
             /\ s.existed = exists
             /\ s.locked => exists
             /\ sink' = Append(sink, events)
             /\ IF s.unwritable
                THEN /\ s.result = Absent
                     /\ files' = IF exists /\ ~s.locked
                                  THEN [files EXCEPT !["events.csv"] = NoFile]
                                  ELSE files
                ELSE IF s.locked
                THEN /\ s.result = Some(alt_name(now))
                     /\ files' = [files EXCEPT ![alt_name(now)] = File(events)]
                ELSE /\ s.result = Some("events.csv")
                     /\ files' = [files EXCEPT !["events.csv"] = File(events)]]_vars

\* C17 witness: the old export could not be removed and the new one is
\* under the alternate name, returned to main.
C17_Witness ==
    /\ pc = "done"
    /\ saved.locked /\ ~saved.unwritable
    /\ saved.result = Some(alt_name(saved.at))
    /\ files[alt_name(saved.at)] = File(events)
    /\ files["events.csv"] = File(OldExport)

\* C16: the list a heatmap request hands to the aggregator is exactly the
\* records stored as approved at that moment; a pending or rejected record
\* is in no sample list, and each governorate's score is the number of
\* approved records of that city.
C16_OnlyApprovedHanded ==
    handed # <<>> =>
        LET list == handed[1]
            data == get_heatmap_data(list)
            scores == calculate_governorate_scores(list)
        IN /\ \A k \in 1..Len(list) :
                 /\ list[k].status = "approved"
                 /\ \E r \in db : to_dict(r) = list[k]
           /\ \A r \in db : r.status = "approved" =>
                 \E k \in 1..Len(list) : list[k].id = r.id
           /\ \A r \in db : r.status # "approved" =>
                 \A gov \in Governorates : \A m \in 1..Len(data[gov].events) :
                     data[gov].events[m].id # r.id
           /\ \A gov \in Governorates :
                 scores[gov] = Cardinality({ r \in db : /\ r.status = "approved"
                                                        /\ strip(r.city) = gov })

\* C16 witness: a request made while storage holds an approved and a
\* pending event of the same governorate; the score counts one.
C16_Witness ==
    /\ handed # <<>>
    /\ \E r \in db, q \in db :
          /\ r.status = "approved" /\ q.status = "pending"
          /\ r.city = q.city /\ r.city \in Governorates
          /\ calculate_governorate_scores(handed[1])[r.city] = 1

\* The sum of a mapping's values, whatever its keys.
RECURSIVE SumOver(_, _)
SumOver(f, S) ==
    IF S = {} THEN 0
    ELSE LET x == CHOOSE y \in S : TRUE IN f[x] + SumOver(f, S \ {x})

\* The city values the aggregator skips.
Skipped == { "", "Unknown", "Error", "Pending" }

\* C11: the values of calculate_governorate_scores(events) sum to the number
\* of events whose stripped city is a name of the taxonomy, each bucket
\* holding the number of events of that name; events whose city is empty,
\* 'Unknown', 'Error' or 'Pending' add nothing.
C11_ScoresSumCounted ==
    agg.fn = "calculate_governorate_scores" =>
        LET ev == agg.events
            scores == agg.result
        IN /\ SumOver(scores, DOMAIN scores)
                = Cardinality({ k \in 1..Len(ev) :
                      strip(get_city(ev[k])) \in Governorates \cup CityToGovernorateKeys })
           /\ \A gov \in Governorates :
                 scores[gov] = Cardinality({ k \in 1..Len(ev) : strip(get_city(ev[k])) = gov })
           /\ scores = calculate_governorate_scores(
                           SelectSeq(ev, LAMBDA e : strip(get_city(e)) \notin Skipped))

\* C11 witness: the claim's example, Monastir 1, Sfax 2, Mahdia 1, total 4.
C11_Witness ==
    /\ agg.fn = "calculate_governorate_scores"
    /\ agg.events = with_ids(ExampleCities)
    /\ agg.result["Monastir"] = 1 /\ agg.result["Sfax"] = 2 /\ agg.result["Mahdia"] = 1
    /\ \A gov \in Governorates \ {"Monastir", "Sfax", "Mahdia"} : agg.result[gov] = 0
    /\ SumOver(agg.result, DOMAIN agg.result) = 4

\* C12: the keys of calculate_governorate_scores(events) and of
\* get_heatmap_data(events) are the 24 governorates, whatever the cities.
C12_FixedBuckets ==
    agg.fn \in {"calculate_governorate_scores", "get_heatmap_data"} =>
        /\ DOMAIN agg.result = Governorates
        /\ Cardinality(DOMAIN agg.result) = 24

\* C12 witness: scores of a collection with a city of no governorate.
C12_Witness ==
    /\ agg.fn = "calculate_governorate_scores"
    /\ \E k \in 1..Len(agg.events) : get_city(agg.events[k]) = "Paris"
    /\ \E k \in 1..Len(agg.events) : get_city(agg.events[k]) = "Sfax"
    /\ "Paris" \notin DOMAIN agg.result

\* The bands in the order blue, yellow, orange, red.
BandRank(color) ==
    CASE color = "#3388FF" -> 0
      [] color = "#FFD700" -> 1
      [] color = "#FF8800" -> 2
      [] color = "#FF0000" -> 3

\* C13: get_color_for_score gives blue for 0, yellow for 1..3, orange for
\* 4..6, red from 7 on, and no lower score has a later band.
C13_ColorBands ==
    agg.fn = "get_color_for_score" =>
        LET score == agg.score
            color == agg.result
        IN /\ color \in {"#3388FF", "#FFD700", "#FF8800", "#FF0000"}
           /\ (color = "#3388FF") <=> (score = 0)
           /\ (color = "#FFD700") <=> (1 <= score /\ score <= 3)
           /\ (color = "#FF8800") <=> (4 <= score /\ score <= 6)
           /\ (color = "#FF0000") <=> (score >= 7)
           /\ \A below \in 0..score :
                 BandRank(get_color_for_score(below)) <= BandRank(color)

\* C13 witness: the first score of the red band.
C13_Witness ==
    agg.fn = "get_color_for_score" /\ agg.score = 7 /\ agg.result = "#FF0000"

\* C14: a bucket's sample list is the first 5 events counted for it, in
\* input order, and events_count is the number of all events counted.
C14_FiveSamples ==
    agg.fn = "get_heatmap_data" =>
        \A gov \in Governorates :
            LET counted == SelectSeq(agg.events, LAMBDA e : strip(get_city(e)) = gov)
                data == agg.result[gov]
            IN /\ Len(data.events) <= 5
               /\ data.events = SubSeq(counted, 1,
                                       IF Len(counted) < 5 THEN Len(counted) ELSE 5)
               /\ data.events_count = Len(counted)
               /\ data.score = Len(counted)

\* C14 witness: a bucket with more than 5 events counted and 5 samples.
C14_Witness ==
    /\ agg.fn = "get_heatmap_data"
    /\ \E gov \in Governorates :
          /\ agg.result[gov].events_count > 5
          /\ Len(agg.result[gov].events) = 5
    /\ \E k \in 1..Len(agg.events) : get_city(agg.events[k]) = "Error"

\* The position of a governorate in the taxonomy.
TaxonomyIndex(gov) ==
    CHOOSE k \in 1..Len(TUNISIAN_GOVERNORATES) : TUNISIAN_GOVERNORATES[k] = gov

\* C15: get_heatmap_summary(events) follows from the scores:
\* total_governorates is 24, total_events the sum of the scores,
\* active_governorates the number of nonzero buckets, and
\* governorates_with_events the nonzero buckets in taxonomy order.
C15_SummaryFromScores ==
    agg.fn = "get_heatmap_summary" =>
        LET scores == calculate_governorate_scores(agg.events)
            summary == agg.result
            listed == summary.governorates_with_events
        IN /\ summary.total_governorates = 24
           /\ summary.total_events = SumOver(scores, DOMAIN scores)
           /\ summary.active_governorates
                = Cardinality({ gov \in DOMAIN scores : scores[gov] > 0 })
           /\ { listed[k] : k \in 1..Len(listed) }
                = { gov \in DOMAIN scores : scores[gov] > 0 }
           /\ \A a \in 1..Len(listed), b \in 1..Len(listed) :
                 a < b => TaxonomyIndex(listed[a]) < TaxonomyIndex(listed[b])

\* C15 witness: events of Sfax before one of Monastir, listed in taxonomy
\* order.
C15_Witness ==
    /\ agg.fn = "get_heatmap_summary"
    /\ Len(agg.events) >= 2
    /\ get_city(agg.events[1]) = "Sfax"
    /\ agg.result.governorates_with_events = << "Monastir", "Sfax" >>
    /\ agg.result.active_governorates = 2
    /\ agg.result.total_events = Len(agg.events)

\* C18: in get_heatmap_data(events) every bucket's score is the count
\* calculate_governorate_scores(events) gives the governorate, events_count
\* equals the score, and the color is get_color_for_score(score).
C18_DataAgreesWithScores ==
    agg.fn = "get_heatmap_data" =>
        LET scores == calculate_governorate_scores(agg.events)
        IN \A gov \in Governorates :
              /\ agg.result[gov].score = scores[gov]
              /\ agg.result[gov].events_count = agg.result[gov].score
              /\ agg.result[gov].color = get_color_for_score(agg.result[gov].score)

\* C18 witness: a bucket incremented through every band up to red.
C18_Witness ==
    /\ agg.fn = "get_heatmap_data"
    /\ \E gov \in Governorates :
          agg.result[gov].score = 7 /\ agg.result[gov].color = "#FF0000"

\* C19: every city the resolver's tables hold, and the default city, is a
\* governorate of the taxonomy; every resolver result is one, 'Unknown' or
\* 'Error'; and the scores of the list a run returns sum to the number of
\* its events whose city is not 'Error'.
C19_ResolvedCitiesCounted ==
    /\ KnownCities \subseteq Governorates
    /\ coerce_unknown("Unknown") \in Governorates
    /\ \A k \in 1..Len(calls) : \A c \in 1..Len(calls[k]) :
          calls[k][c].result \in Governorates \cup {"Unknown", "Error"}
    /\ pc \in {"returned", "done"} =>
          LET scores == calculate_governorate_scores(events)
          IN SumOver(scores, DOMAIN scores)
               = Cardinality({ k \in 1..Len(events) : events[k].city # "Error" })

\* C19 witness: a returned list with a failed resolution, one resolved by
\* default and counted under Tunis.
C19_Witness ==
    /\ pc \in {"returned", "done"}
    /\ \E k \in 1..Len(events) : events[k].city = "Error"
    /\ \E k \in 1..Len(events) :
          /\ calls[k][1].result = "Unknown"
          /\ calculate_governorate_scores(events)[events[k].city] = 1

====
